---- MODULE Spec2Model ----
(***************************************************************************)
(* The per-tick trading engines of the repository:                         *)
(*   ROUND-1/simple_mean_reversion.py  (Trader.run, no instance fields)    *)
(*   ROUND-2/premium_narrowdown.py     (Trader with instance fields)       *)
(*   ROUND-3/short_itm.py              (Trader with instance fields)       *)
(* One run of Trader.run is one action.  The simulator around it hands in  *)
(* a TradingState (timestamp, order_depths, position, traderData) and      *)
(* feeds the returned traderData and the filled orders back.               *)
(*                                                                         *)
(* Numbers.  Order-book prices and volumes are integers.  A mid-price      *)
(* (best_bid + best_ask) / 2 may end in .5, so every mid-price, every      *)
(* price_history entry, every pb_croissant_history entry and vr_price are  *)
(* held DOUBLED (x2).  A fair price sum(history)/len(history) is held as   *)
(* the pair num/den with num the sum of the doubled entries and den twice  *)
(* the length.  For the magnitudes used here the code's float arithmetic   *)
(* is exact on these comparisons.                                          *)
(***************************************************************************)
EXTENDS Integers, Sequences, FiniteSets, TLC

VARIABLES
    round,      \* the deployed Trader: 1 = ROUND-1, 2 = ROUND-2, 3 = ROUND-3
    listed,     \* the products of the run (the keys of state.order_depths)
    self,       \* the Trader instance's fields (ROUND-2 and ROUND-3)
    state,      \* the TradingState of the last call of run
    ret,        \* what the last call of run returned
    pc,         \* "idle" (no call yet), "returned", "raised"
    position,   \* the simulator's position table
    now,        \* the number of calls of run so far (the timestamp)
    faults,     \* how many corrupted traderData blobs were delivered so far
    pushed,     \* history variable: every mid-price pushed, per history
    locals,     \* values local to the last call: the restored trader_data, fair prices
    twin        \* what a freshly constructed Trader returns on the same TradingState

vars == <<round, listed, self, state, ret, pc, position, now, faults, pushed, locals, twin>>

(***************************************************************************)
(* Bounds of the model.                                                    *)
(***************************************************************************)
MaxTicks == 3         \* calls of run per run of Spec (detailed books, corrupted blobs)
WalkTicks == 3        \* calls of run per run of SpecWalk (detailed books)
MaxFaults == 1        \* corrupted traderData deliveries per run of Spec
LongTicks == 7        \* calls of run per run of SpecLong, moving-average products
VoucherTicks == 23    \* calls of run per run of SpecLong, voucher products
CroissantTicks == 127 \* calls of run per run of SpecLong, CROISSANTS
ShortTicks == 2       \* calls of run per run of SpecShort
SignalTicks == 2      \* calls of run per run of SpecSignal
FreshTicks == 101     \* calls of run per run of SpecFresh
RestoreTicks == 2     \* calls of run per run of SpecRestore
ValueLevels == 2      \* price levels a side of a component book of SpecValue

(***************************************************************************)
(* Helpers over integers, sets and sequences.                              *)
(***************************************************************************)
Max(S) == CHOOSE x \in S : \A y \in S : y <= x
Min(S) == CHOOSE x \in S : \A y \in S : x <= y
min(a, b) == IF a <= b THEN a ELSE b

RECURSIVE sorted(_)
sorted(S) == IF S = {} THEN <<>> ELSE <<Min(S)>> \o sorted(S \ {Min(S)})

RECURSIVE sorted_reverse(_)
sorted_reverse(S) == IF S = {} THEN <<>> ELSE <<Max(S)>> \o sorted_reverse(S \ {Max(S)})

RECURSIVE sum(_)
sum(s) == IF s = <<>> THEN 0 ELSE Head(s) + sum(Tail(s))

\* s[-n:] of Python: the last n elements (all of s when it is shorter)
LastN(s, n) == IF Len(s) <= n THEN s ELSE SubSeq(s, Len(s) - n + 1, Len(s))

EmptyDict == [k \in {} |-> <<>>]

\* d.get(k, default)
Get(d, k, default) == IF k \in DOMAIN d THEN d[k] ELSE default

\* d with d[k] = v
Put(d, k, v) == [x \in DOMAIN d \cup {k} |-> IF x = k THEN v ELSE d[x]]

RECURSIVE SetToSeq(_)
SetToSeq(S) == IF S = {} THEN <<>> ELSE LET x == CHOOSE y \in S : TRUE IN <<x>> \o SetToSeq(S \ {x})

Order(symbol, price, quantity) == [symbol |-> symbol, price |-> price, quantity |-> quantity]

(***************************************************************************)
(* The order walk of the moving-average strategy.                          *)
(* fair is [num, den]: ask_price < fair_price  iff  ask_price*den < num.   *)
(* acc is [orders, current_position].                                      *)
(***************************************************************************)
\* ask_price <= fair_price for ask_price < fair_price
BelowOrAtFair(price, fair) == price * fair.den <= fair.num

BelowFair(price, fair) == price * fair.den < fair.num

\* bid_price >= fair_price for bid_price > fair_price
AboveOrAtFair(price, fair) == price * fair.den >= fair.num

AboveFair(price, fair) == price * fair.den > fair.num

\* the BUY loop without the clamp to the remaining capacity
RECURSIVE BuyWalkUnclamped(_, _, _, _, _, _)
BuyWalkUnclamped(product, keys, sell_orders, fair, position_limit, acc) ==
    IF keys = <<>> THEN acc
    ELSE LET ask_price == Head(keys)
             volume == -sell_orders[ask_price]
         IN  IF BelowFair(ask_price, fair) /\ acc.current_position < position_limit
             THEN BuyWalkUnclamped(product, Tail(keys), sell_orders, fair, position_limit,
                              [orders |-> Append(acc.orders, Order(product, ask_price, volume)),
                               current_position |-> acc.current_position + volume])
             ELSE BuyWalkUnclamped(product, Tail(keys), sell_orders, fair, position_limit, acc)

RECURSIVE BuyWalk(_, _, _, _, _, _)
BuyWalk(product, keys, sell_orders, fair, position_limit, acc) ==
    IF keys = <<>> THEN acc
    ELSE LET ask_price == Head(keys)
             ask_volume == sell_orders[ask_price]
         IN  IF BelowFair(ask_price, fair) /\ acc.current_position < position_limit
             THEN LET volume == min(-ask_volume, position_limit - acc.current_position)
                  IN  BuyWalk(product, Tail(keys), sell_orders, fair, position_limit,
                              [orders |-> Append(acc.orders, Order(product, ask_price, volume)),
                               current_position |-> acc.current_position + volume])
             ELSE BuyWalk(product, Tail(keys), sell_orders, fair, position_limit, acc)

\* the SELL loop with Order(product, bid_price, volume) for Order(product, bid_price, -volume)
RECURSIVE SellWalkUnsigned(_, _, _, _, _, _)
SellWalkUnsigned(product, keys, buy_orders, fair, position_limit, acc) ==
    IF keys = <<>> THEN acc
    ELSE LET bid_price == Head(keys)
             bid_volume == buy_orders[bid_price]
         IN  IF AboveFair(bid_price, fair) /\ acc.current_position > -position_limit
             THEN LET volume == min(bid_volume, acc.current_position + position_limit)
                  IN  SellWalkUnsigned(product, Tail(keys), buy_orders, fair, position_limit,
                               [orders |-> Append(acc.orders, Order(product, bid_price, volume)),
                                current_position |-> acc.current_position - volume])
             ELSE SellWalkUnsigned(product, Tail(keys), buy_orders, fair, position_limit, acc)

RECURSIVE SellWalk(_, _, _, _, _, _)
SellWalk(product, keys, buy_orders, fair, position_limit, acc) ==
    IF keys = <<>> THEN acc
    ELSE LET bid_price == Head(keys)
             bid_volume == buy_orders[bid_price]
         IN  IF AboveFair(bid_price, fair) /\ acc.current_position > -position_limit
             THEN LET volume == min(bid_volume, acc.current_position + position_limit)
                  IN  SellWalk(product, Tail(keys), buy_orders, fair, position_limit,
                               [orders |-> Append(acc.orders, Order(product, bid_price, -volume)),
                                current_position |-> acc.current_position - volume])
             ELSE SellWalk(product, Tail(keys), buy_orders, fair, position_limit, acc)

\* the BUY loop, then the SELL loop on the position the BUY loop left
OrderWalk(product, order_depth, fair, position_limit, current_position) ==
    LET bought == BuyWalk(product, sorted(DOMAIN order_depth.sell_orders),
                          order_depth.sell_orders, fair, position_limit,
                          [orders |-> <<>>, current_position |-> current_position])
    IN  SellWalk(product, sorted_reverse(DOMAIN order_depth.buy_orders),
                 order_depth.buy_orders, fair, position_limit, bought).orders

\* append, then keep the first max_history entries: [:max_history] for [-max_history:]
PushHistoryKeepsOldest(history, mid_price, max_history) ==
    LET appended == Append(history, mid_price)
    IN  IF Len(appended) > max_history THEN SubSeq(appended, 1, max_history) ELSE appended

\* append, then keep the last max_history entries
PushHistory(history, mid_price, max_history) ==
    LET appended == Append(history, mid_price)
    IN  IF Len(appended) > max_history THEN LastN(appended, max_history) ELSE appended

FairOf(history) == [num |-> sum(history), den |-> 2 * Len(history)]

TwoSided(order_depth) == order_depth.buy_orders # <<>> /\ order_depth.sell_orders # <<>>

\* max(buy_orders.keys()) + min(sell_orders.keys()): the doubled mid-price
MidPrice(order_depth) == Max(DOMAIN order_depth.buy_orders) + Min(DOMAIN order_depth.sell_orders)

(***************************************************************************)
(* ROUND-1: Trader.run of simple_mean_reversion.py.                        *)
(* The traderData blob is json.dumps(price_history):                       *)
(*   [kind |-> "empty"]      the empty string (falsy)                      *)
(*   [kind |-> "malformed"]  text json.loads rejects                       *)
(*   [kind |-> "json"]       a document; scalar = TRUE when it decodes to  *)
(*                           a number instead of a mapping                 *)
(***************************************************************************)
r1_max_history == 5
r1_fallback_resin == 10000
r1_fallback_other == 1000

r1_position_limits == [p \in {"RAINFOREST_RESIN", "KELP", "SQUID_INK"} |-> 50]

R1Blob(kind, scalar, price_history) ==
    [kind |-> kind, scalar |-> scalar, price_history |-> price_history]

\* json.dumps(price_history)
R1Dumps(price_history) == R1Blob("json", FALSE, price_history)

\* the fallback mid-price as the history whatever is stored
R1HistoryFallbackOnly(price_history, product, mid_price) == <<mid_price>>

\* history = price_history.get(product, [mid_price])
R1History(price_history, product, mid_price) == Get(price_history, product, <<mid_price>>)

\* one pass of the body of "for product in state.order_depths"
\* acc is [raised, price_history, result, fair]
R1Product(acc, product, st) ==
    IF acc.raised THEN acc
    ELSE IF product \notin DOMAIN r1_position_limits \/ st.traderData.scalar
    THEN [acc EXCEPT !.raised = TRUE]
    ELSE
    LET order_depth == st.order_depths[product]
        position_limit == r1_position_limits[product]
        current_position == Get(st.position, product, 0)
        price_history == IF TwoSided(order_depth)
                         THEN Put(acc.price_history, product,
                                  PushHistory(Get(acc.price_history, product, <<>>),
                                              MidPrice(order_depth), r1_max_history))
                         ELSE acc.price_history
        mid_price == IF TwoSided(order_depth) THEN MidPrice(order_depth)
                     ELSE IF product = "RAINFOREST_RESIN" THEN 2 * r1_fallback_resin
                     ELSE 2 * r1_fallback_other
        history == R1History(price_history, product, mid_price)
        fair_price == FairOf(history)
        orders == IF product = "SQUID_INK" THEN <<>>
                  ELSE OrderWalk(product, order_depth, fair_price, position_limit, current_position)
    IN  [raised |-> FALSE,
         price_history |-> price_history,
         result |-> Put(acc.result, product, orders),
         fair |-> Put(acc.fair, product, fair_price)]

RECURSIVE R1Loop(_, _, _)
R1Loop(acc, products, st) ==
    IF products = <<>> THEN acc
    ELSE R1Loop(R1Product(acc, Head(products), st), Tail(products), st)

\* Trader.run: [raised, result, conversions, traderData, fair]
R1Run(st) ==
    IF st.traderData.kind = "malformed"
    THEN [raised |-> TRUE, result |-> EmptyDict, conversions |-> 0,
          traderData |-> st.traderData, fair |-> EmptyDict]
    ELSE
    LET loaded == IF st.traderData.kind = "empty" THEN EmptyDict
                  ELSE st.traderData.price_history
        done == R1Loop([raised |-> FALSE, price_history |-> loaded,
                        result |-> EmptyDict, fair |-> EmptyDict],
                       SetToSeq(DOMAIN st.order_depths), st)
    IN  [raised |-> done.raised, result |-> done.result, conversions |-> 0,
         traderData |-> R1Dumps(done.price_history), fair |-> done.fair]

(***************************************************************************)
(* ROUND-3: Trader of short_itm.py.                                        *)
(* self holds the instance fields that change: vr_price, vr_last_prices,   *)
(* pb_croissant_history, trader_data.  pb_dynamic_params is never written  *)
(* after __init__ and pb_components is never read; both are left out.      *)
(* The traderData blob is json.dumps(self.trader_data):                    *)
(*   kind    "empty" | "malformed" | "json"                                *)
(*   keys    the top-level keys of the document, in document order         *)
(*   scalar  the keys whose value is a number instead of a mapping         *)
(***************************************************************************)
vr_max_short == 200
vr_price_init == 10500
vr_last_prices_max == 20
vr_clip == 10
pb_croissant_window == 100
pb_max_trade_size == 10
pb_history_max == 5
\* pb_std_threshold = 1.5 = pb_std_threshold_num / pb_std_threshold_den
pb_std_threshold_num == 3
pb_std_threshold_den == 2
\* the discount 0.95 = vr_discount_num / vr_discount_den
vr_discount_num == 19
vr_discount_den == 20

pb_position_limits ==
    [p \in {"RAINFOREST_RESIN", "KELP", "CROISSANTS", "PICNIC_BASKET1", "PICNIC_BASKET2"} |->
        CASE p \in {"RAINFOREST_RESIN", "KELP"} -> 50
          [] p = "CROISSANTS" -> 250
          [] p = "PICNIC_BASKET1" -> 60
          [] OTHER -> 100]

TraderDataKeys == {"last_timestamp", "price_history", "spread_history"}

\* Trader.__init__
R3Init ==
    [vr_price |-> 2 * vr_price_init,
     vr_last_prices |-> <<>>,
     pb_croissant_history |-> <<>>,
     trader_data |-> [last_timestamp |-> 0,
                      price_history |-> EmptyDict,
                      spread_history |-> [b \in {"PICNIC_BASKET1", "PICNIC_BASKET2"} |-> <<>>]]]

R3Blob(kind, keys, scalar, last_timestamp, price_history, spread_history) ==
    [kind |-> kind, keys |-> keys, scalar |-> scalar, last_timestamp |-> last_timestamp,
     price_history |-> price_history, spread_history |-> spread_history]

R3EmptyBlob == R3Blob("empty", <<>>, {}, 0, EmptyDict, EmptyDict)

\* json.dumps(self.trader_data): the three keys in the dict's insertion order
R3Dumps(trader_data) ==
    R3Blob("json", <<"last_timestamp", "price_history", "spread_history">>, {},
           trader_data.last_timestamp, trader_data.price_history, trader_data.spread_history)

\* dict.update as an assignment: the mapping replaced by new
DictReplace(old, new) == new

\* dict.update: the keys of new are added or overwritten, the others kept
DictUpdate(old, new) ==
    [k \in DOMAIN old \cup DOMAIN new |-> IF k \in DOMAIN new THEN new[k] ELSE old[k]]

\* one pass of "for key in loaded_data"; acc is [raised, trader_data]
R3RestoreKey(acc, key, blob) ==
    IF acc.raised \/ key \notin TraderDataKeys THEN acc
    ELSE IF key = "last_timestamp"
    THEN [acc EXCEPT !.trader_data.last_timestamp = blob.last_timestamp]
    ELSE IF key \in blob.scalar
    THEN [acc EXCEPT !.raised = TRUE]
    ELSE IF key = "price_history"
    THEN [acc EXCEPT !.trader_data.price_history = DictUpdate(@, blob.price_history)]
    ELSE [acc EXCEPT !.trader_data.spread_history = DictUpdate(@, blob.spread_history)]

RECURSIVE R3RestoreLoop(_, _, _)
R3RestoreLoop(acc, keys, blob) ==
    IF keys = <<>> THEN acc
    ELSE R3RestoreLoop(R3RestoreKey(acc, Head(keys), blob), Tail(keys), blob)

\* the restore step of run: "if state.traderData: try: ... except: pass"
R3Restore(trader_data, blob) ==
    IF blob.kind # "json" THEN trader_data
    ELSE R3RestoreLoop([raised |-> FALSE, trader_data |-> trader_data], blob.keys, blob).trader_data

\* vr_update_market_data
vr_update_market_data(me, st) ==
    IF "VOLCANIC_ROCK" \in DOMAIN st.order_depths /\ TwoSided(st.order_depths["VOLCANIC_ROCK"])
    THEN LET price == MidPrice(st.order_depths["VOLCANIC_ROCK"])
             appended == Append(me.vr_last_prices, price)
         IN  [me EXCEPT !.vr_price = price,
                        !.vr_last_prices = IF Len(appended) > vr_last_prices_max
                                           THEN Tail(appended) ELSE appended]
    ELSE me

\* product.startswith('VOLCANIC_ROCK_VOUCHER')
IsVoucher(product) == product \in {"VOLCANIC_ROCK_VOUCHER_10500", "VOLCANIC_ROCK_VOUCHER"}

\* int(product.split('_')[-1]): ok = FALSE when the last token is no number
Strike(product) ==
    IF product = "VOLCANIC_ROCK_VOUCHER_10500" THEN [ok |-> TRUE, strike |-> 10500]
    ELSE [ok |-> FALSE, strike |-> 0]

\* vr_short_itm_voucher selling the clip of 10 whatever capacity is left
vr_short_itm_voucher_full_clip(me, product, st) ==
    IF ~Strike(product).ok THEN [raised |-> TRUE, orders |-> <<>>]
    ELSE
    LET strike == Strike(product).strike
        current_pos == Get(st.position, product, 0)
        short_capacity == vr_max_short + current_pos
        intrinsic == me.vr_price - 2 * strike
        price == (intrinsic * vr_discount_num) \div (2 * vr_discount_den)
    IN  IF me.vr_price <= 2 * strike \/ short_capacity <= 0
        THEN [raised |-> FALSE, orders |-> <<>>]
        ELSE [raised |-> FALSE, orders |-> <<Order(product, price, -vr_clip)>>]

\* vr_short_itm_voucher: [raised, orders]
vr_short_itm_voucher(me, product, st) ==
    IF ~Strike(product).ok THEN [raised |-> TRUE, orders |-> <<>>]
    ELSE
    LET strike == Strike(product).strike
        current_pos == Get(st.position, product, 0)
        short_capacity == vr_max_short + current_pos
        quantity == min(vr_clip, short_capacity)
        intrinsic == me.vr_price - 2 * strike
        price == (intrinsic * vr_discount_num) \div (2 * vr_discount_den)
    IN  IF me.vr_price <= 2 * strike \/ short_capacity <= 0
        THEN [raised |-> FALSE, orders |-> <<>>]
        ELSE [raised |-> FALSE, orders |-> <<Order(product, price, -quantity)>>]

\* pb_update_croissant_history
pb_update_croissant_history(history, current_price) ==
    LET appended == Append(history, current_price)
    IN  IF Len(appended) > pb_croissant_window THEN Tail(appended) ELSE appended

(***************************************************************************)
(* pb_calculate_z_score, as the side of the threshold the z-score is on:   *)
(* 1 for z > 1.5, -1 for z < -1.5, 0 otherwise.  With n = len(history),    *)
(* d_i = x_i - current_price, D = sum d_i and Q = sum d_i^2 (mean and      *)
(* stdev are translation invariant):                                        *)
(*   current - mean = -D/n,   stdev^2 = (n*Q - D^2) / (n*(n-1))            *)
(*   |z| > t  iff  (n-1) * D^2 * den^2  >  num^2 * n * (n*Q - D^2)         *)
(***************************************************************************)
\* (the sums split the window in halves)
RECURSIVE sum_dev(_, _)
sum_dev(s, c) ==
    IF s = <<>> THEN 0
    ELSE IF Len(s) = 1 THEN s[1] - c
    ELSE sum_dev(SubSeq(s, 1, Len(s) \div 2), c) + sum_dev(SubSeq(s, Len(s) \div 2 + 1, Len(s)), c)

RECURSIVE sum_dev2(_, _)
sum_dev2(s, c) ==
    IF s = <<>> THEN 0
    ELSE IF Len(s) = 1 THEN (s[1] - c) * (s[1] - c)
    ELSE sum_dev2(SubSeq(s, 1, Len(s) \div 2), c) + sum_dev2(SubSeq(s, Len(s) \div 2 + 1, Len(s)), c)

\* pb_z_side without the guard on the number of observations
pb_z_side_unguarded(history, current_price) ==
    LET n == Len(history)
        D == sum_dev(history, current_price)
        Q == sum_dev2(history, current_price)
        ss == n * Q - D * D
        beyond == (n - 1) * D * D * pb_std_threshold_den * pb_std_threshold_den
                    > pb_std_threshold_num * pb_std_threshold_num * n * ss
    IN  IF n <= 1 \/ ss = 0 \/ ~beyond THEN 0
        ELSE IF D < 0 THEN 1 ELSE -1

\* pb_calculate_z_score returns 0: the window is short, or std_dev is 0, or
\* current_price is the mean
pb_z_zero(history, current_price) ==
    \/ Len(history) < pb_croissant_window
    \/ Len(history) <= 1
    \/ Len(history) * sum_dev2(history, current_price)
          = sum_dev(history, current_price) * sum_dev(history, current_price)
    \/ sum_dev(history, current_price) = 0

pb_z_side(history, current_price) ==
    IF Len(history) < pb_croissant_window THEN 0
    ELSE
    LET n == Len(history)
        D == sum_dev(history, current_price)
        Q == sum_dev2(history, current_price)
        ss == n * Q - D * D
        beyond == (n - 1) * D * D * pb_std_threshold_den * pb_std_threshold_den
                    > pb_std_threshold_num * pb_std_threshold_num * n * ss
    IN  IF n <= 1 \/ ss = 0 \/ ~beyond THEN 0
        ELSE IF D < 0 THEN 1 ELSE -1

\* pb_process_product with the overbought sell priced at the best ask
pb_process_product_sell_at_ask(acc, product, st) ==
    LET order_depth == st.order_depths[product]
        position_limit == pb_position_limits[product]
        current_position == Get(st.position, product, 0)
        emit(me, orders, fair) ==
            [raised |-> FALSE, me |-> me,
             result |-> IF orders # <<>> THEN Put(acc.result, product, orders) ELSE acc.result,
             fair |-> fair]
    IN
    IF ~TwoSided(order_depth) THEN acc
    ELSE
    LET best_bid == Max(DOMAIN order_depth.buy_orders)
        best_ask == Min(DOMAIN order_depth.sell_orders)
        mid_price == MidPrice(order_depth)
    IN
    IF product \in {"RAINFOREST_RESIN", "KELP"}
    THEN LET history == PushHistory(Get(acc.me.trader_data.price_history, product, <<>>),
                                    mid_price, pb_history_max)
             fair_price == FairOf(history)
         IN  emit([acc.me EXCEPT !.trader_data.price_history = Put(@, product, history)],
                  OrderWalk(product, order_depth, fair_price, position_limit, current_position),
                  Put(acc.fair, product, fair_price))
    ELSE IF product = "CROISSANTS"
    THEN LET history == pb_update_croissant_history(acc.me.pb_croissant_history, mid_price)
             z_side == pb_z_side(history, mid_price)
             sell_volume == min(pb_max_trade_size, position_limit + current_position)
             buy_volume == min(pb_max_trade_size, position_limit - current_position)
             orders == IF z_side = 1 /\ sell_volume > 0
                       THEN <<Order(product, best_ask, -sell_volume)>>
                       ELSE IF z_side = -1 /\ buy_volume > 0
                       THEN <<Order(product, best_ask, buy_volume)>>
                       ELSE <<>>
         IN  emit([acc.me EXCEPT !.pb_croissant_history = history], orders, acc.fair)
    ELSE acc

\* pb_process_product; acc is [raised, me, result, fair]
pb_process_product(acc, product, st) ==
    LET order_depth == st.order_depths[product]
        position_limit == pb_position_limits[product]
        current_position == Get(st.position, product, 0)
        emit(me, orders, fair) ==
            [raised |-> FALSE, me |-> me,
             result |-> IF orders # <<>> THEN Put(acc.result, product, orders) ELSE acc.result,
             fair |-> fair]
    IN
    IF ~TwoSided(order_depth) THEN acc
    ELSE
    LET best_bid == Max(DOMAIN order_depth.buy_orders)
        best_ask == Min(DOMAIN order_depth.sell_orders)
        mid_price == MidPrice(order_depth)
    IN
    IF product \in {"RAINFOREST_RESIN", "KELP"}
    THEN LET history == PushHistory(Get(acc.me.trader_data.price_history, product, <<>>),
                                    mid_price, pb_history_max)
             fair_price == FairOf(history)
         IN  emit([acc.me EXCEPT !.trader_data.price_history = Put(@, product, history)],
                  OrderWalk(product, order_depth, fair_price, position_limit, current_position),
                  Put(acc.fair, product, fair_price))
    ELSE IF product = "CROISSANTS"
    THEN LET history == pb_update_croissant_history(acc.me.pb_croissant_history, mid_price)
             z_side == pb_z_side(history, mid_price)
             sell_volume == min(pb_max_trade_size, position_limit + current_position)
             buy_volume == min(pb_max_trade_size, position_limit - current_position)
             orders == IF z_side = 1 /\ sell_volume > 0
                       THEN <<Order(product, best_bid, -sell_volume)>>
                       ELSE IF z_side = -1 /\ buy_volume > 0
                       THEN <<Order(product, best_ask, buy_volume)>>
                       ELSE <<>>
         IN  emit([acc.me EXCEPT !.pb_croissant_history = history], orders, acc.fair)
    ELSE acc

\* one pass of the first loop of run: the vouchers
R3VoucherStep(acc, product, st) ==
    IF acc.raised \/ ~IsVoucher(product) THEN acc
    ELSE LET got == vr_short_itm_voucher(acc.me, product, st)
         IN  IF got.raised THEN [acc EXCEPT !.raised = TRUE]
             ELSE IF got.orders # <<>>
             THEN [acc EXCEPT !.result = Put(@, product, got.orders)]
             ELSE acc

\* one pass of the second loop of run: the products with a position limit
R3ProductStep(acc, product, st) ==
    IF acc.raised \/ product \notin DOMAIN pb_position_limits THEN acc
    ELSE pb_process_product(acc, product, st)

RECURSIVE R3VoucherLoop(_, _, _)
R3VoucherLoop(acc, products, st) ==
    IF products = <<>> THEN acc
    ELSE R3VoucherLoop(R3VoucherStep(acc, Head(products), st), Tail(products), st)

RECURSIVE R3ProductLoop(_, _, _)
R3ProductLoop(acc, products, st) ==
    IF products = <<>> THEN acc
    ELSE R3ProductLoop(R3ProductStep(acc, Head(products), st), Tail(products), st)

\* Trader.run: [raised, me, result, conversions, traderData, restored, fair]
R3Run(me, st) ==
    LET restored == R3Restore(me.trader_data, st.traderData)
        updated == vr_update_market_data([me EXCEPT !.trader_data = restored], st)
        products == SetToSeq(DOMAIN st.order_depths)
        vouchers == R3VoucherLoop([raised |-> FALSE, me |-> updated,
                                   result |-> EmptyDict, fair |-> EmptyDict], products, st)
        done == R3ProductLoop(vouchers, products, st)
        final == [done.me EXCEPT !.trader_data.last_timestamp = st.timestamp]
    IN  [raised |-> done.raised,
         me |-> IF done.raised THEN done.me ELSE final,
         result |-> done.result, conversions |-> 0,
         traderData |-> R3Dumps(final.trader_data),
         restored |-> restored, fair |-> done.fair]

(***************************************************************************)
(* ROUND-2: Trader of premium_narrowdown.py.                               *)
(* self holds croissant_history and trader_data; dynamic_params is written *)
(* only by update_dynamic_buffers, which nothing calls.  Line 150 of the   *)
(* file reads "Update price history" without the comment mark, so the file *)
(* as it stands does not compile; the methods are modelled as they read    *)
(* with that line taken as the comment it stands for.                      *)
(* The traderData blob is json.dumps(self.trader_data), as in ROUND-3,     *)
(* with the fourth key open_positions.                                     *)
(***************************************************************************)
croissant_window == 100
max_trade_size == 10
r2_max_history == 5

POSITION_LIMITS ==
    [p \in {"RAINFOREST_RESIN", "KELP", "CROISSANTS", "PICNIC_BASKET1", "PICNIC_BASKET2"} |->
        CASE p \in {"RAINFOREST_RESIN", "KELP"} -> 50
          [] p = "CROISSANTS" -> 250
          [] p = "PICNIC_BASKET1" -> 60
          [] OTHER -> 100]

COMPONENTS ==
    [b \in {"PICNIC_BASKET1", "PICNIC_BASKET2"} |->
        IF b = "PICNIC_BASKET1"
        THEN [c \in {"CROISSANTS", "JAMS", "DJEMBES"} |->
                 CASE c = "CROISSANTS" -> 6 [] c = "JAMS" -> 3 [] OTHER -> 1]
        ELSE [c \in {"CROISSANTS", "JAMS"} |-> IF c = "CROISSANTS" THEN 4 ELSE 2]]

R2TraderDataKeys == {"spread_history", "last_timestamp", "open_positions", "price_history"}

\* Trader.__init__
R2Init ==
    [croissant_history |-> <<>>,
     trader_data |-> [spread_history |-> [b \in {"PICNIC_BASKET1", "PICNIC_BASKET2"} |-> <<>>],
                      last_timestamp |-> 0,
                      open_positions |-> EmptyDict,
                      price_history |-> EmptyDict]]

R2Blob(kind, keys, scalar, fields) ==
    [kind |-> kind, keys |-> keys, scalar |-> scalar,
     spread_history |-> fields.spread_history, last_timestamp |-> fields.last_timestamp,
     open_positions |-> fields.open_positions, price_history |-> fields.price_history]

R2NoFields ==
    [spread_history |-> EmptyDict, last_timestamp |-> 0,
     open_positions |-> EmptyDict, price_history |-> EmptyDict]

R2EmptyBlob == R2Blob("empty", <<>>, {}, R2NoFields)

\* json.dumps(self.trader_data): the four keys in the dict's insertion order
R2Dumps(trader_data) ==
    R2Blob("json", <<"spread_history", "last_timestamp", "open_positions", "price_history">>,
           {}, trader_data)

\* one pass of "for key in loaded_data"; acc is [raised, trader_data]
R2RestoreKey(acc, key, blob) ==
    IF acc.raised \/ key \notin R2TraderDataKeys THEN acc
    ELSE IF key = "last_timestamp"
    THEN [acc EXCEPT !.trader_data.last_timestamp = blob.last_timestamp]
    ELSE IF key \in blob.scalar
    THEN [acc EXCEPT !.raised = TRUE]
    ELSE IF key = "price_history"
    THEN [acc EXCEPT !.trader_data.price_history = DictUpdate(@, blob.price_history)]
    ELSE IF key = "open_positions"
    THEN [acc EXCEPT !.trader_data.open_positions = DictUpdate(@, blob.open_positions)]
    ELSE [acc EXCEPT !.trader_data.spread_history = DictUpdate(@, blob.spread_history)]

RECURSIVE R2RestoreLoop(_, _, _)
R2RestoreLoop(acc, keys, blob) ==
    IF keys = <<>> THEN acc
    ELSE R2RestoreLoop(R2RestoreKey(acc, Head(keys), blob), Tail(keys), blob)

\* the restore step of run: "if state.traderData: try: ... except: pass"
R2Restore(trader_data, blob) ==
    IF blob.kind # "json" THEN trader_data
    ELSE R2RestoreLoop([raised |-> FALSE, trader_data |-> trader_data], blob.keys, blob).trader_data

\* one pass of the body of "for product in state.order_depths"
\* acc is [raised, me, result, fair]
R2Product(acc, product, st) ==
    IF product \notin DOMAIN POSITION_LIMITS THEN acc
    ELSE
    LET order_depth == st.order_depths[product]
        position_limit == POSITION_LIMITS[product]
        current_position == Get(st.position, product, 0)
    IN
    IF ~TwoSided(order_depth) THEN [acc EXCEPT !.result = Put(@, product, <<>>)]
    ELSE
    LET best_bid == Max(DOMAIN order_depth.buy_orders)
        best_ask == Min(DOMAIN order_depth.sell_orders)
        mid_price == MidPrice(order_depth)
    IN
    IF product \in {"RAINFOREST_RESIN", "KELP"}
    THEN LET pushed_history == PushHistory(Get(acc.me.trader_data.price_history, product, <<>>),
                                           mid_price, r2_max_history)
             price_history == Put(acc.me.trader_data.price_history, product, pushed_history)
             history == Get(price_history, product, <<mid_price>>)
             fair_price == FairOf(history)
         IN  [raised |-> FALSE,
              me |-> [acc.me EXCEPT !.trader_data.price_history = price_history],
              result |-> Put(acc.result, product,
                             OrderWalk(product, order_depth, fair_price, position_limit,
                                       current_position)),
              fair |-> Put(acc.fair, product, fair_price)]
    ELSE IF product = "CROISSANTS"
    THEN LET history == pb_update_croissant_history(acc.me.croissant_history, mid_price)
             z_side == pb_z_side(history, mid_price)
             sell_volume == min(max_trade_size, position_limit + current_position)
             buy_volume == min(max_trade_size, position_limit - current_position)
             orders == IF z_side = 1 /\ sell_volume > 0
                       THEN <<Order(product, best_bid, -sell_volume)>>
                       ELSE IF z_side = -1 /\ buy_volume > 0
                       THEN <<Order(product, best_ask, buy_volume)>>
                       ELSE <<>>
         IN  [raised |-> FALSE,
              me |-> [acc.me EXCEPT !.croissant_history = history],
              result |-> Put(acc.result, product, orders),
              fair |-> acc.fair]
    ELSE [acc EXCEPT !.result = Put(@, product, <<>>)]

RECURSIVE R2Loop(_, _, _)
R2Loop(acc, products, st) ==
    IF products = <<>> THEN acc
    ELSE R2Loop(R2Product(acc, Head(products), st), Tail(products), st)

\* Trader.run: [raised, me, result, conversions, traderData, restored, fair]
R2Run(me, st) ==
    LET restored == R2Restore(me.trader_data, st.traderData)
        done == R2Loop([raised |-> FALSE, me |-> [me EXCEPT !.trader_data = restored],
                        result |-> EmptyDict, fair |-> EmptyDict],
                       SetToSeq(DOMAIN st.order_depths), st)
        final == [done.me EXCEPT !.trader_data.last_timestamp = st.timestamp]
    IN  [raised |-> FALSE, me |-> final, result |-> done.result, conversions |-> 0,
         traderData |-> R2Dumps(final.trader_data),
         restored |-> restored, fair |-> done.fair]

\* a fraction [num, den], den > 0
Fraction(num, den) == [num |-> num, den |-> den]
FractionAdd(a, b) == Fraction(a.num * b.den + b.num * a.den, a.den * b.den)

Abs(v) == IF v < 0 THEN -v ELSE v

\* sum(p*v for p,v in side.items())
RECURSIVE sum_price_volume(_, _)
sum_price_volume(side, levels) ==
    IF levels = {} THEN 0
    ELSE LET p == CHOOSE x \in levels : TRUE
         IN  p * side[p] + sum_price_volume(side, levels \ {p})

\* sum(side.values())
RECURSIVE sum_volume(_, _)
sum_volume(side, levels) ==
    IF levels = {} THEN 0
    ELSE LET p == CHOOSE x \in levels : TRUE
         IN  side[p] + sum_volume(side, levels \ {p})

\* the side with every volume replaced by its absolute value
AbsSide(side) == [p \in DOMAIN side |-> Abs(side[p])]

\* bid_vwap: the volumes as they are
bid_vwap(buy_orders) ==
    Fraction(sum_price_volume(buy_orders, DOMAIN buy_orders),
             sum_volume(buy_orders, DOMAIN buy_orders))

\* the best ask price alone for the ask VWAP
ask_vwap_best_level(sell_orders) == Fraction(Min(DOMAIN sell_orders), 1)

\* ask_vwap: abs(v) in the numerator and in the denominator
ask_vwap(sell_orders) ==
    Fraction(sum_price_volume(AbsSide(sell_orders), DOMAIN sell_orders),
             sum_volume(AbsSide(sell_orders), DOMAIN sell_orders))

\* one pass of "for comp, qty in components.items()"; acc is [none, total]
\* total += qty * (bid_vwap + ask_vwap)/2
FairValueStep(acc, comp, qty, st) ==
    IF acc.none THEN acc
    ELSE IF comp \notin DOMAIN st.order_depths \/ ~TwoSided(st.order_depths[comp])
    THEN [acc EXCEPT !.none = TRUE]
    ELSE LET depth == st.order_depths[comp]
             both == FractionAdd(bid_vwap(depth.buy_orders), ask_vwap(depth.sell_orders))
         IN  [acc EXCEPT !.total = FractionAdd(@, Fraction(qty * both.num, 2 * both.den))]

RECURSIVE FairValueLoop(_, _, _, _)
FairValueLoop(acc, comps, components, st) ==
    IF comps = <<>> THEN acc
    ELSE FairValueLoop(FairValueStep(acc, Head(comps), components[Head(comps)], st),
                       Tail(comps), components, st)

\* calculate_fair_value: [none, total]; none = TRUE for a return of None
calculate_fair_value(components, st) ==
    FairValueLoop([none |-> FALSE, total |-> Fraction(0, 1)],
                  SetToSeq(DOMAIN components), components, st)

(***************************************************************************)
(* The simulator.  The deployed Trader and the products of the run are     *)
(* fixed when the run starts.  Every call hands in a book for each listed  *)
(* product, the position table and a traderData blob: the one the last     *)
(* call returned or, in Spec, a corrupted one.  The orders a call returns  *)
(* are filled in full and the result is the next call's position table.    *)
(***************************************************************************)
Universe(r, products) == [round |-> r, listed |-> products]

Side(levels, volume) == [p \in levels |-> volume]
Book(buy_orders, sell_orders) == [buy_orders |-> buy_orders, sell_orders |-> sell_orders]
NoSide == Side({}, 0)

\* the price a moving-average product trades around
BasePrice(product) == IF product = "RAINFOREST_RESIN" THEN 10000 ELSE 1000

\* the price levels one side of a detailed book may hold: none, one, or two adjacent
Levels(b) == {{}, {b - 1}, {b + 1}, {b - 1, b}, {b, b + 1}}

\* Spec and SpecWalk: up to two levels a side on three adjacent prices; one-sided,
\* locked and crossed books included
DetailedBooks(product) ==
    LET b == BasePrice(product)
    IN  {Book(Side(B, 30), Side(A, -30)) : B \in Levels(b), A \in Levels(b)}

\* SpecLong: one level a side; around the base, below it, above it, and crossed
LeanBooks(product) ==
    LET b == BasePrice(product)
    IN  {Book(Side({b - 2}, 30), Side({b + 2}, -30)),
         Book(Side({b - 7}, 30), Side({b - 3}, -30)),
         Book(Side({b + 3}, 30), Side({b + 7}, -30)),
         Book(Side({b + 1}, 30), Side({b - 1}, -30))}

CroissantBase == Book(Side({4300}, 30), Side({4302}, -30))
CroissantHigh == Book(Side({4302}, 30), Side({4304}, -30))
CroissantLow == Book(Side({4298}, 30), Side({4300}, -30))
CroissantNoBid == Book(NoSide, Side({4302}, -30))

RockInTheMoney == Book(Side({10599}, 30), Side({10601}, -30))
RockOutOfTheMoney == Book(Side({10399}, 30), Side({10401}, -30))
RockNoAsk == Book(Side({10599}, 30), NoSide)
VoucherBook == Book(Side({94}, 30), Side({99}, -30))
EmptyBook == Book(NoSide, NoSide)

MovingAverageProducts == {"RAINFOREST_RESIN", "KELP", "SQUID_INK"}

ResinBooks == DetailedBooks("RAINFOREST_RESIN")
OtherBooks == DetailedBooks("KELP")

\* the books a listed product may show in a call of Spec
SpecBooks(product) ==
    CASE product = "RAINFOREST_RESIN" -> ResinBooks
      [] product \in MovingAverageProducts -> OtherBooks
      [] product = "CROISSANTS" -> {CroissantBase, CroissantHigh, CroissantNoBid}
      [] product = "VOLCANIC_ROCK" -> {RockInTheMoney, RockOutOfTheMoney, RockNoAsk}
      [] OTHER -> {VoucherBook, EmptyBook}

(***************************************************************************)
(* SpecLong runs long enough to fill the 100-entry window and to reach the *)
(* limits 250 and 200 in clips of 10, so its CROISSANTS and VOLCANIC_ROCK  *)
(* books move in one direction only: the book stays, or leaves its first   *)
(* level for good.                                                         *)
(***************************************************************************)
LeanResinBooks == LeanBooks("RAINFOREST_RESIN")
LeanOtherBooks == LeanBooks("KELP")

LongBooks(product, last) ==
    CASE product = "RAINFOREST_RESIN" -> LeanResinBooks
      [] product \in MovingAverageProducts -> LeanOtherBooks
      [] product = "CROISSANTS" ->
            IF product \notin DOMAIN last THEN {CroissantBase}
            ELSE IF last[product] = CroissantBase
            THEN {CroissantBase, CroissantHigh, CroissantLow}
            ELSE {last[product]}
      [] product = "VOLCANIC_ROCK" ->
            IF product \notin DOMAIN last THEN {RockOutOfTheMoney, RockInTheMoney}
            ELSE IF last[product] = RockOutOfTheMoney
            THEN {RockOutOfTheMoney, RockInTheMoney}
            ELSE {last[product]}
      [] OTHER -> {VoucherBook}

SpecUniverses ==
    {Universe(1, {"RAINFOREST_RESIN"}), Universe(1, {"KELP"}), Universe(1, {"SQUID_INK"}),
     Universe(1, {"JAMS"}),
     Universe(2, {"KELP"}), Universe(2, {"CROISSANTS"}), Universe(2, {"PICNIC_BASKET1"}),
     Universe(2, {"JAMS"}), Universe(3, {"JAMS"}), Universe(3, {"PICNIC_BASKET1"}),
     Universe(3, {"KELP"}), Universe(3, {"CROISSANTS"}),
     Universe(3, {"VOLCANIC_ROCK", "VOLCANIC_ROCK_VOUCHER_10500"}),
     Universe(3, {"VOLCANIC_ROCK_VOUCHER"})}

WalkUniverses ==
    {Universe(1, {"RAINFOREST_RESIN"}), Universe(1, {"KELP"}), Universe(3, {"KELP"})}

LongUniverses ==
    {Universe(1, {"RAINFOREST_RESIN"}), Universe(1, {"KELP"}), Universe(1, {"SQUID_INK"}),
     Universe(2, {"CROISSANTS"}),
     Universe(3, {"KELP"}), Universe(3, {"CROISSANTS"}),
     Universe(3, {"VOLCANIC_ROCK", "VOLCANIC_ROCK_VOUCHER_10500"})}

\* one book for each listed product
Snapshots(products, books(_)) ==
    {order_depths \in [products -> UNION {books(p) : p \in products}] :
        \A p \in products : order_depths[p] \in books(p)}

\* the snapshots of Spec, per set of listed products
SpecSnapshots == [products \in {u.listed : u \in SpecUniverses} |-> Snapshots(products, SpecBooks)]

LongSnapshots(products, last) == LET books(p) == LongBooks(p, last) IN Snapshots(products, books)

Horizon(products) ==
    IF "CROISSANTS" \in products THEN CroissantTicks
    ELSE IF "VOLCANIC_ROCK" \in products THEN VoucherTicks
    ELSE LongTicks

\* the blob of a first call: the empty string
EmptyBlob(r) ==
    IF r = 1 THEN R1Blob("empty", FALSE, EmptyDict)
    ELSE IF r = 2 THEN R2EmptyBlob ELSE R3EmptyBlob

\* blobs that are not the one the last call returned
CorruptBlobs(r) ==
    IF r = 1
    THEN {R1Blob("empty", FALSE, EmptyDict),
          R1Blob("malformed", FALSE, EmptyDict),
          R1Blob("json", TRUE, EmptyDict)}
    ELSE IF r = 2
    THEN {R2EmptyBlob,
          R2Blob("malformed", <<>>, {}, R2NoFields),
          R2Blob("json", <<"price_history", "spread_history">>, {"spread_history"},
                 [R2NoFields EXCEPT !.price_history = [p \in {"KELP"} |-> <<2002>>]])}
    ELSE {R3EmptyBlob,
          R3Blob("malformed", <<>>, {}, 0, EmptyDict, EmptyDict),
          R3Blob("json", <<"price_history", "spread_history">>, {"spread_history"}, 0,
                 [p \in {"KELP"} |-> <<2002>>], EmptyDict)}

\* ROUND-1's Trader has no fields
NoFields == [none |-> TRUE]

\* a freshly constructed Trader
Fresh(r) == IF r = 1 THEN NoFields ELSE IF r = 2 THEN R2Init ELSE R3Init

\* Trader.run of the deployed Trader: [raised, me, result, conversions, traderData, restored, fair]
Run(r, me, st) ==
    IF r = 1
    THEN LET got == R1Run(st)
         IN  [raised |-> got.raised, me |-> me, result |-> got.result,
              conversions |-> got.conversions, traderData |-> got.traderData,
              restored |-> NoFields, fair |-> got.fair]
    ELSE IF r = 2 THEN R2Run(me, st)
    ELSE R3Run(me, st)

RECURSIVE Net(_)
Net(orders) == IF orders = <<>> THEN 0 ELSE Head(orders).quantity + Net(Tail(orders))

\* every order of result filled in full
Fill(table, result) ==
    [p \in DOMAIN table \cup DOMAIN result |->
        Get(table, p, 0) + (IF p \in DOMAIN result THEN Net(result[p]) ELSE 0)]

\* the mid-prices the books of this call add to the histories
Pushes(log, order_depths) ==
    [p \in DOMAIN log |->
        IF p \in DOMAIN order_depths /\ TwoSided(order_depths[p])
        THEN Append(log[p], MidPrice(order_depths[p])) ELSE log[p]]

Returned(got) == [result |-> got.result, conversions |-> got.conversions, traderData |-> got.traderData]

\* the simulator calls run(st) on the Trader instance me
CallOn(me, st) ==
    \E got \in {Run(round, me, st)}, fresh \in {Run(round, Fresh(round), st)} :
        /\ state' = st
        /\ now' = now + 1
        /\ self' = got.me
        /\ pc' = IF got.raised THEN "raised" ELSE "returned"
        /\ ret' = IF got.raised THEN ret ELSE Returned(got)
        /\ position' = IF got.raised THEN position ELSE Fill(st.position, got.result)
        /\ pushed' = IF got.raised THEN pushed ELSE Pushes(pushed, st.order_depths)
        /\ locals' = [before |-> IF round = 1 THEN NoFields ELSE me.trader_data,
                      restored |-> got.restored, fair |-> got.fair]
        /\ twin' = [raised |-> fresh.raised, result |-> fresh.result,
                    traderData |-> fresh.traderData]
        /\ UNCHANGED <<round, listed>>

\* the simulator calls run(st) on the deployed Trader
Call(st) == CallOn(self, st)

TradingState(timestamp, order_depths, table, traderData) ==
    [timestamp |-> timestamp, order_depths |-> order_depths,
     position |-> table, traderData |-> traderData]

InitOf(universes) ==
    /\ \E u \in universes : round = u.round /\ listed = u.listed
    /\ self = Fresh(round)
    /\ state = TradingState(0, EmptyDict, EmptyDict, EmptyBlob(round))
    /\ ret = [result |-> EmptyDict, conversions |-> 0, traderData |-> EmptyBlob(round)]
    /\ pc = "idle"
    /\ position = EmptyDict
    /\ now = 0
    /\ faults = 0
    /\ pushed = [p \in listed |-> <<>>]
    /\ locals = [before |-> NoFields, restored |-> NoFields, fair |-> EmptyDict]
    /\ twin = [raised |-> FALSE, result |-> EmptyDict, traderData |-> EmptyBlob(round)]

\* a call with the blob the last call returned
Tick ==
    /\ pc # "raised"
    /\ now < MaxTicks
    /\ \E order_depths \in SpecSnapshots[listed] :
          Call(TradingState(now + 1, order_depths, position, ret.traderData))
    /\ UNCHANGED faults

\* a call with a blob that is empty, malformed, or of another shape
TickCorrupt ==
    /\ pc # "raised"
    /\ now < MaxTicks
    /\ faults < MaxFaults
    /\ \E order_depths \in SpecSnapshots[listed], blob \in CorruptBlobs(round) :
          Call(TradingState(now + 1, order_depths, position, blob))
    /\ faults' = faults + 1

\* a call of SpecWalk: detailed books, the blob the last call returned
TickWalk ==
    /\ pc # "raised"
    /\ now < WalkTicks
    /\ \E order_depths \in SpecSnapshots[listed] :
          Call(TradingState(now + 1, order_depths, position, ret.traderData))
    /\ UNCHANGED faults

\* a call of a long run
TickLong ==
    /\ pc # "raised"
    /\ now < Horizon(listed)
    /\ \E order_depths \in LongSnapshots(listed, state.order_depths) :
          Call(TradingState(now + 1, order_depths, position, ret.traderData))
    /\ UNCHANGED faults

(***************************************************************************)
(* SpecShort: the voucher strategy on VOLCANIC_ROCK books around the       *)
(* strike and on a position table the exchange reports (fills may be       *)
(* partial, so the voucher position is any integer).                       *)
(***************************************************************************)
RockBook(best_bid, best_ask) == Book(Side({best_bid}, 30), Side({best_ask}, -30))

ShortRockBooks ==
    {RockOutOfTheMoney, RockBook(10499, 10501), RockBook(10500, 10501),
     RockBook(10509, 10512), RockInTheMoney, RockNoAsk}

ShortPositions == {-205, -200, -195, 0, 7}

ShortUniverses == {Universe(3, {"VOLCANIC_ROCK", "VOLCANIC_ROCK_VOUCHER_10500"})}

\* a call of SpecShort
TickShort ==
    /\ pc # "raised"
    /\ now < ShortTicks
    /\ \E rock \in ShortRockBooks, p \in ShortPositions :
          Call(TradingState(now + 1,
                            [q \in listed |-> IF q = "VOLCANIC_ROCK" THEN rock ELSE VoucherBook],
                            [q \in {"VOLCANIC_ROCK_VOUCHER_10500"} |-> p],
                            ret.traderData))
    /\ UNCHANGED faults

(***************************************************************************)
(* SpecSignal: the z-score strategy from a Trader that has already seen    *)
(* 98 or 99 CROISSANTS ticks at one mid-price, or 60 at one and 39 at a    *)
(* higher one, on a position table the exchange reports.                   *)
(***************************************************************************)
RECURSIVE Repeat(_, _)
Repeat(x, n) ==
    IF n = 0 THEN <<>>
    ELSE IF n = 1 THEN <<x>>
    ELSE Repeat(x, n \div 2) \o Repeat(x, n - n \div 2)

SignalWindows ==
    {Repeat(MidPrice(CroissantBase), 98),
     Repeat(MidPrice(CroissantBase), 99),
     Repeat(MidPrice(CroissantBase), 60) \o Repeat(MidPrice(CroissantHigh), 39)}

SignalPositions == {-255, -250, -245, 0, 245, 250}

SignalBooks == {CroissantBase, CroissantHigh, CroissantLow, CroissantNoBid}

\* the Trader of round r with the window seen so far
Seasoned(r, window) ==
    IF r = 2 THEN [R2Init EXCEPT !.croissant_history = window]
    ELSE [R3Init EXCEPT !.pb_croissant_history = window]

InitSignal ==
    /\ round \in {2, 3}
    /\ listed = {"CROISSANTS"}
    /\ \E window \in SignalWindows :
          /\ self = Seasoned(round, window)
          /\ pushed = [p \in listed |-> window]
    /\ state = TradingState(0, EmptyDict, EmptyDict, EmptyBlob(round))
    /\ ret = [result |-> EmptyDict, conversions |-> 0, traderData |-> EmptyBlob(round)]
    /\ pc = "idle"
    /\ position = EmptyDict
    /\ now = 0
    /\ faults = 0
    /\ locals = [before |-> NoFields, restored |-> NoFields, fair |-> EmptyDict]
    /\ twin = [raised |-> FALSE, result |-> EmptyDict, traderData |-> EmptyBlob(round)]

\* a call of SpecSignal
TickSignal ==
    /\ pc # "raised"
    /\ now < SignalTicks
    /\ \E book \in SignalBooks, p \in SignalPositions :
          Call(TradingState(now + 1, [q \in listed |-> book], [q \in listed |-> p],
                            ret.traderData))
    /\ UNCHANGED faults

(***************************************************************************)
(* SpecFresh: the simulator keeps no Trader between calls.  Every call     *)
(* constructs a Trader and hands it the blob the last call returned.       *)
(***************************************************************************)
FreshUniverses == {Universe(2, {"CROISSANTS"}), Universe(3, {"CROISSANTS"})}

\* a call of SpecFresh, on a freshly constructed Trader
TickFresh ==
    /\ pc # "raised"
    /\ now < FreshTicks
    /\ \E order_depths \in LongSnapshots(listed, state.order_depths) :
          CallOn(Fresh(round), TradingState(now + 1, order_depths, position, ret.traderData))
    /\ UNCHANGED faults

(***************************************************************************)
(* SpecRestore: calls with a well-formed blob that is not the one the last *)
(* call returned: some of the top-level keys, mappings with keys the state *)
(* has and keys it has not, and a key of the other round's blob.           *)
(***************************************************************************)
RestoreUniverses == {Universe(2, {"KELP"}), Universe(3, {"KELP"})}

WellFormedFields ==
    {[R2NoFields EXCEPT !.price_history = [p \in {"KELP"} |-> <<2002, 2004>>]],
     [R2NoFields EXCEPT !.price_history = [p \in {"RAINFOREST_RESIN"} |-> <<20000>>],
                        !.last_timestamp = 77],
     [R2NoFields EXCEPT !.spread_history = [b \in {"PICNIC_BASKET1"} |-> <<5>>],
                        !.open_positions = [p \in {"KELP"} |-> 3]]}

WellFormedKeys ==
    {<<"price_history">>, <<"price_history", "last_timestamp">>,
     <<"spread_history", "open_positions">>, <<"last_timestamp">>}

WellFormedBlobs(r) ==
    IF r = 2
    THEN {R2Blob("json", keys, {}, fields) : keys \in WellFormedKeys, fields \in WellFormedFields}
    ELSE {R3Blob("json", keys, {}, fields.last_timestamp, fields.price_history,
                 fields.spread_history) : keys \in WellFormedKeys, fields \in WellFormedFields}

\* a call of SpecRestore
TickRestore ==
    /\ pc # "raised"
    /\ now < RestoreTicks
    /\ \E order_depths \in LongSnapshots(listed, state.order_depths),
          blob \in WellFormedBlobs(round) \cup {ret.traderData} :
          Call(TradingState(now + 1, order_depths, position, blob))
    /\ UNCHANGED faults

(***************************************************************************)
(* SpecValue: calculate_fair_value, which run never calls, called with the *)
(* components of a basket on books of up to ValueLevels levels a side,     *)
(* books with an empty side, and snapshots that lack a component.          *)
(***************************************************************************)
ValueUniverses == {Universe(2, {"CROISSANTS", "JAMS", "DJEMBES"})}

ValuePrice(comp) == CASE comp = "CROISSANTS" -> 10 [] comp = "JAMS" -> 20 [] OTHER -> 30

\* n levels down from the best bid b, of volume 1, 3, 5, ...
ValueBids(b, n) == [p \in {b - k : k \in 0..(n - 1)} |-> 2 * (b - p) + 1]

\* n levels up from the best ask a, of volume -1, -3, -5, ...
ValueAsks(a, n) == [p \in {a + k : k \in 0..(n - 1)} |-> -(2 * (p - a) + 1)]

ValueBooks(comp) ==
    LET b == ValuePrice(comp)
    IN  {Book(ValueBids(b, n), ValueAsks(b + 2, m)) : n \in 0..ValueLevels, m \in 0..ValueLevels}

ValueSnapshots ==
    UNION {[present -> UNION {ValueBooks(c) : c \in present}] : present \in SUBSET listed}

\* a call of calculate_fair_value(COMPONENTS[basket], st)
TickValue ==
    /\ pc = "idle"
    /\ \E basket \in DOMAIN COMPONENTS, snapshot \in ValueSnapshots :
          /\ \A c \in DOMAIN snapshot : snapshot[c] \in ValueBooks(c)
          /\ state' = TradingState(now + 1, snapshot, position, ret.traderData)
          /\ locals' = [basket |-> basket,
                        value |-> calculate_fair_value(COMPONENTS[basket], state')]
    /\ pc' = "valued"
    /\ now' = now + 1
    /\ UNCHANGED <<round, listed, self, ret, position, faults, pushed, twin>>

Init == InitOf(SpecUniverses)
Next == Tick \/ TickCorrupt
Spec == Init /\ [][Next]_vars

InitWalk == InitOf(WalkUniverses)
NextWalk == TickWalk
SpecWalk == InitWalk /\ [][NextWalk]_vars

InitLong == InitOf(LongUniverses)
NextLong == TickLong
SpecLong == InitLong /\ [][NextLong]_vars

InitValue == InitOf(ValueUniverses)
NextValue == TickValue
SpecValue == InitValue /\ [][NextValue]_vars

InitRestore == InitOf(RestoreUniverses)
NextRestore == TickRestore
SpecRestore == InitRestore /\ [][NextRestore]_vars

InitFresh == InitOf(FreshUniverses)
NextFresh == TickFresh
SpecFresh == InitFresh /\ [][NextFresh]_vars

NextSignal == TickSignal
SpecSignal == InitSignal /\ [][NextSignal]_vars

InitShort == InitOf(ShortUniverses)
NextShort == TickShort
SpecShort == InitShort /\ [][NextShort]_vars

(***************************************************************************)
(* The claims.                                                             *)
(***************************************************************************)
\* the position limit of a traded product: 200 short for the vouchers
PositionLimit(r, product) ==
    IF IsVoucher(product) THEN vr_max_short
    ELSE IF r = 1 THEN r1_position_limits[product]
    ELSE pb_position_limits[product]

\* the last n entries of a log, oldest first
Recent(log, n) ==
    LET k == min(n, Len(log)) IN [i \in 1..k |-> log[Len(log) - k + i]]

\* C1: with every emitted order filled in full and fed back as the next position,
\* the position of every traded product stays within [-L, L] after every tick.
C1_PositionWithinLimit ==
    \A p \in DOMAIN position :
        /\ -PositionLimit(round, p) <= position[p]
        /\ position[p] <= PositionLimit(round, p)

\* C1's case: CROISSANTS sold in clips of 10 down to the limit, and the next
\* overbought tick emits nothing
C1_Witness ==
    /\ round = 3 /\ pc = "returned"
    /\ "CROISSANTS" \in DOMAIN state.position
    /\ state.position["CROISSANTS"] = -250
    /\ state.order_depths["CROISSANTS"] = CroissantHigh
    /\ position["CROISSANTS"] = -250

PositionBefore(orders, i, start) == start + Net(SubSeq(orders, 1, i - 1))

\* the position once every order priced above (sells) or below (buys) a level is done
PositionAfter(orders, start, done(_)) ==
    start + Net(SelectSeq(orders, done))

(***************************************************************************)
(* The order list C8 describes, for fair price F = fair.num/fair.den,      *)
(* start position p and limit L: buys first, in ascending price order,     *)
(* one per ask level strictly below F until the position reaches L; then   *)
(* sells, in descending price order, one per bid level strictly above F    *)
(* until the position reaches -L.                                          *)
(***************************************************************************)
WalkAsClaimed(orders, order_depth, fair, p, L) ==
    LET asks == order_depth.sell_orders
        bids == order_depth.buy_orders
        n == Len(orders)
        IsBuy(i) == orders[i].quantity > 0 \/ (orders[i].quantity = 0 /\ orders[i].price \in DOMAIN asks
                                                /\ \A j \in 1..n : orders[j].quantity < 0 => i < j)
        buys == {i \in 1..n : IsBuy(i)}
        sells == (1..n) \ buys
        bought == p + Net(SelectSeq(orders, LAMBDA o : o.quantity > 0))
    IN  /\ \A i \in buys, j \in sells : i < j
        /\ \A i \in buys :
              /\ orders[i].price \in DOMAIN asks
              /\ orders[i].price * fair.den < fair.num
              /\ \A j \in buys : i < j => orders[i].price < orders[j].price
              /\ PositionBefore(orders, i, p) < L
              /\ orders[i].quantity = min(-asks[orders[i].price], L - PositionBefore(orders, i, p))
        /\ \A a \in DOMAIN asks :
              (a * fair.den < fair.num /\ ~\E i \in buys : orders[i].price = a)
                  => PositionAfter(orders, p, LAMBDA o : o.quantity > 0 /\ o.price < a) >= L
        /\ \A i \in sells :
              /\ orders[i].price \in DOMAIN bids
              /\ orders[i].price * fair.den > fair.num
              /\ \A j \in sells : i < j => orders[i].price > orders[j].price
              /\ PositionBefore(orders, i, p) > -L
              /\ -orders[i].quantity = min(bids[orders[i].price], PositionBefore(orders, i, p) + L)
        /\ \A b \in DOMAIN bids :
              (b * fair.den > fair.num /\ ~\E i \in sells : orders[i].price = b)
                  => PositionAfter(orders, bought, LAMBDA o : o.quantity < 0 /\ o.price > b) <= -L

\* the products the moving-average walk ran for in the last call
Walked == {p \in listed \cap {"RAINFOREST_RESIN", "KELP"} : p \in DOMAIN locals.fair}

\* C8: the order list of the moving-average strategy is the buy walk over the asks
\* strictly below the fair price, ascending, each clamped to L - p', then the sell walk
\* over the bids strictly above it, descending, each clamped to p' + L; a level at the
\* fair price is never traded.
C8_OrderWalk ==
    pc = "returned" =>
        \A p \in Walked :
            WalkAsClaimed(Get(ret.result, p, <<>>), state.order_depths[p], locals.fair[p],
                          Get(state.position, p, 0), PositionLimit(round, p))

\* C8's case: a buy, a second buy clamped to the remaining capacity, then a sell on
\* the position the buys left
C8_Witness ==
    /\ pc = "returned"
    /\ \E p \in Walked :
          LET orders == Get(ret.result, p, <<>>)
          IN  /\ Len(orders) = 3
              /\ orders[1].quantity > 0
              /\ orders[2].quantity > 0 /\ orders[2].quantity < 30
              /\ orders[3].quantity < 0

\* C8's second case: a level priced exactly at the fair price, not traded
C8_LevelAtFair ==
    /\ pc = "returned"
    /\ \E p \in Walked :
          \E a \in DOMAIN state.order_depths[p].sell_orders \cup DOMAIN state.order_depths[p].buy_orders :
              a * locals.fair[p].den = locals.fair[p].num

\* the static fallback fair price of ROUND-1
StaticFair(product) == IF product = "RAINFOREST_RESIN" THEN 10000 ELSE 1000

\* the products of the last call whose book had no bid or no ask
OneSided == {p \in listed : ~TwoSided(state.order_depths[p])}

\* the history stored for a product in a ROUND-1 blob, <<>> when it has none
Stored(blob, product) ==
    IF blob.kind = "json" /\ product \in DOMAIN blob.price_history
    THEN blob.price_history[product] ELSE <<>>

\* C10 as stated: on a one-sided book the simple moving-average strategy takes the
\* static constant (10000 for RAINFOREST_RESIN, 1000 otherwise) as the fair price,
\* whatever the stored history, and leaves the history unchanged.
C10_StaticFairWhateverHistory ==
    (round = 1 /\ pc = "returned") =>
        \A p \in OneSided :
            /\ locals.fair[p].num = StaticFair(p) * locals.fair[p].den
            /\ Stored(ret.traderData, p) = Stored(state.traderData, p)

\* C10 amended: on a one-sided book the fair price is the static constant only when
\* the product has no stored history; with a stored history it is the average of that
\* history; the history is left unchanged either way.
C10_StaticFairWithoutHistory ==
    (round = 1 /\ pc = "returned") =>
        \A p \in OneSided :
            LET stored == Stored(state.traderData, p)
                fair == locals.fair[p]
            IN  /\ stored = <<>> => fair.num = StaticFair(p) * fair.den
                /\ stored # <<>> => fair.num * 2 * Len(stored) = sum(stored) * fair.den
                /\ Stored(ret.traderData, p) = stored

\* C10's case: a one-sided book for a product whose stored history averages to
\* something else than the static constant
C10_Witness ==
    /\ round = 1 /\ pc = "returned"
    /\ \E p \in OneSided :
          LET stored == Stored(state.traderData, p)
          IN  /\ stored # <<>>
              /\ sum(stored) # 2 * Len(stored) * StaticFair(p)
              /\ p \in DOMAIN ret.result /\ ret.result[p] # <<>>

\* the products of the last call that have a position limit
Limited ==
    {p \in listed : IsVoucher(p) \/ p \in (IF round = 1 THEN DOMAIN r1_position_limits
                                           ELSE DOMAIN pb_position_limits)}

RECURSIVE NetOf(_, _)
NetOf(orders, indices) ==
    IF indices = {} THEN 0
    ELSE LET i == CHOOSE j \in indices : TRUE
         IN  orders[i].quantity + NetOf(orders, indices \ {i})

\* C2: whichever of the orders emitted for a product in a tick are filled, the
\* position stays within [-L, L], crossed books included.
C2_NoSubsetOfOrdersBreaksLimit ==
    pc = "returned" =>
        \A p \in Limited :
            LET start == Get(state.position, p, 0)
                orders == Get(ret.result, p, <<>>)
                L == PositionLimit(round, p)
            IN  (-L <= start /\ start <= L) =>
                    \A filled \in SUBSET (1..Len(orders)) :
                        /\ -L <= start + NetOf(orders, filled)
                        /\ start + NetOf(orders, filled) <= L

\* a blob that is empty, malformed, or holds a number where a mapping is expected
IllFormed(blob, r) ==
    \/ blob.kind \in {"empty", "malformed"}
    \/ r = 1 /\ blob.scalar
    \/ r = 3 /\ blob.scalar # {}

\* C3: on an empty, malformed or ill-shaped blob the restore step leaves the state as
\* it was, nothing merged, and no error of the restore step reaches the caller of run.
C3_RestoreFailsSoftly ==
    (pc # "idle" /\ IllFormed(state.traderData, round)) =>
        /\ (round = 1 /\ state.traderData.kind = "malformed") => pc = "returned"
        /\ round = 3 => locals.restored = locals.before

\* C4: every call of run returns a result, whatever the books, products, positions
\* and blob.
C4_RunAlwaysReturns == pc # "raised"

\* the state a freshly constructed ROUND-3 Trader holds after restoring a blob
RestoredFresh(blob) == [R3Init EXCEPT !.trader_data = R3Restore(R3Init.trader_data, blob)]

\* C5: restoring the blob a tick returned into a fresh Trader gives the price
\* histories, the z-score window, the spread histories, the last underlying price and
\* the last timestamp the Trader held at the end of that tick.
C5_StateRoundTrip ==
    (round = 3 /\ pc = "returned") =>
        LET back == RestoredFresh(ret.traderData)
        IN  /\ back.trader_data.price_history = self.trader_data.price_history
            /\ back.trader_data.spread_history = self.trader_data.spread_history
            /\ back.trader_data.last_timestamp = self.trader_data.last_timestamp
            /\ back.pb_croissant_history = self.pb_croissant_history
            /\ back.vr_price = self.vr_price

\* C6: a call returns the same orders and the same blob as a freshly constructed
\* Trader given the same snapshot, positions and blob.
C6_SameInputsSameOutputs ==
    pc = "returned" =>
        /\ ~twin.raised
        /\ twin.result = ret.result
        /\ twin.traderData = ret.traderData

\* C9: a product whose book has no bid or no ask gets no order in that tick.
C9_NoOrderOnOneSidedBook ==
    pc = "returned" => \A p \in OneSided : Get(ret.result, p, <<>>) = <<>>

\* the products the deployed Trader has a position limit or a strategy for
Configured(r, product) ==
    IF r = 1 THEN product \in DOMAIN r1_position_limits
    ELSE IF r = 2 THEN product \in DOMAIN POSITION_LIMITS
    ELSE product \in DOMAIN pb_position_limits \/ IsVoucher(product)

\* the TradingState without the book of a product
Without(st, product) ==
    [st EXCEPT !.order_depths = [q \in (DOMAIN st.order_depths) \ {product} |-> st.order_depths[q]]]

\* C11: for a product of the snapshot with no configured limit or strategy the tick
\* completes, the product is absent from the output, and the blob returned is the one
\* returned for the snapshot without the product.
C11_UnconfiguredProductSkipped ==
    pc # "idle" =>
        \A p \in listed :
            ~Configured(round, p) =>
                /\ pc = "returned"
                /\ p \notin DOMAIN ret.result
                /\ now = 1 =>
                      ret.traderData = Run(round, Fresh(round), Without(state, p)).traderData

Baskets == {"PICNIC_BASKET1", "PICNIC_BASKET2"}

\* C12: every configured product of the snapshot is a key of the output, with an empty
\* list when it has no order; SQUID_INK and the baskets have their history updated on a
\* tick with a two-sided book.
C12_ConfiguredProductsInOutput ==
    pc = "returned" =>
        \A p \in listed :
            Configured(round, p) =>
                /\ p \in DOMAIN ret.result
                /\ (round = 1 /\ p = "SQUID_INK" /\ TwoSided(state.order_depths[p])) =>
                      /\ Stored(ret.traderData, p) # <<>>
                      /\ Stored(ret.traderData, p)[Len(Stored(ret.traderData, p))]
                            = MidPrice(state.order_depths[p])
                /\ (round # 1 /\ p \in Baskets /\ TwoSided(state.order_depths[p])) =>
                      self.trader_data.spread_history[p] # <<>>

\* the vouchers of the last call whose identifier ends in a strike
Vouchers == {p \in listed : IsVoucher(p) /\ Strike(p).ok}

\* C13: for a voucher with strike K, position p and underlying price U the call emits
\* no order if U <= K or 200 + p <= 0, and otherwise exactly one order, a sell of
\* min(10, 200 + p) at floor((U - K) * 0.95).  self.vr_price is 2U.
C13_IntrinsicValueShort ==
    (round = 3 /\ pc = "returned") =>
        \A v \in Vouchers :
            LET K == Strike(v).strike
                p == Get(state.position, v, 0)
                orders == Get(ret.result, v, <<>>)
            IN  IF self.vr_price <= 2 * K \/ 200 + p <= 0
                THEN orders = <<>>
                ELSE /\ Len(orders) = 1
                     /\ orders[1].symbol = v
                     /\ orders[1].quantity = -min(10, 200 + p)
                     /\ orders[1].price * 40 <= (self.vr_price - 2 * K) * 19
                     /\ (self.vr_price - 2 * K) * 19 < (orders[1].price + 1) * 40

\* C13's case: U = 10600 and p = -195, a sell of the 5 left at 95
C13_Witness ==
    /\ round = 3 /\ pc = "returned"
    /\ self.vr_price = 21200
    /\ \E v \in Vouchers :
          /\ Get(state.position, v, 0) = -195
          /\ Get(ret.result, v, <<>>) = <<Order(v, 95, -5)>>

\* the rolling window of the z-score strategy after the last call
Window == IF round = 2 THEN self.croissant_history ELSE self.pb_croissant_history

\* C14: on a two-sided CROISSANTS book with position p: for a z-score above 1.5 one
\* sell at the best bid of min(10, 250 + p), nothing if 250 + p <= 0; for a z-score
\* below -1.5 one buy at the best ask of min(10, 250 - p), nothing if 250 - p <= 0;
\* for a z-score within [-1.5, 1.5] no order.
C14_ThresholdCrossing ==
    (pc = "returned" /\ "CROISSANTS" \in listed /\ TwoSided(state.order_depths["CROISSANTS"])) =>
        LET book == state.order_depths["CROISSANTS"]
            p == Get(state.position, "CROISSANTS", 0)
            orders == Get(ret.result, "CROISSANTS", <<>>)
            z_side == pb_z_side(Window, MidPrice(book))
        IN  /\ z_side = 1 =>
                  IF 250 + p <= 0 THEN orders = <<>>
                  ELSE orders = <<Order("CROISSANTS", Max(DOMAIN book.buy_orders),
                                        -min(10, 250 + p))>>
            /\ z_side = -1 =>
                  IF 250 - p <= 0 THEN orders = <<>>
                  ELSE orders = <<Order("CROISSANTS", Min(DOMAIN book.sell_orders),
                                        min(10, 250 - p))>>
            /\ z_side = 0 => orders = <<>>

\* C14's case: a z-score above 1.5 at position -245, a sell of the 5 left at the best bid
C14_Witness ==
    /\ pc = "returned" /\ "CROISSANTS" \in listed
    /\ state.order_depths["CROISSANTS"] = CroissantHigh
    /\ Get(state.position, "CROISSANTS", 0) = -245
    /\ Get(ret.result, "CROISSANTS", <<>>) = <<Order("CROISSANTS", 4302, -5)>>

\* C15: after 100 ticks at one CROISSANTS mid-price and one tick at a higher one, with
\* the state carried from tick to tick by the blob the last call returned, the last
\* call emits exactly one order for CROISSANTS: a sell at the best bid of
\* min(10, 250 + position).
C15_OutlierAfterHundredTicks ==
    (pc = "returned" /\ "CROISSANTS" \in listed /\ now = 101
        /\ pushed["CROISSANTS"] = Append(Repeat(MidPrice(CroissantBase), 100),
                                         MidPrice(CroissantHigh))) =>
        ret.result = [p \in {"CROISSANTS"} |->
                         <<Order("CROISSANTS", Max(DOMAIN CroissantHigh.buy_orders),
                                 -min(10, 250 + Get(state.position, "CROISSANTS", 0)))>>]

\* all values of a window are equal
AllEqual(window) == \A i \in 1..Len(window) : window[i] = window[1]

\* C16: on a tick where the window holds fewer than 100 observations after the push,
\* or where all values of the full window are equal, the z-score is 0 and the z-score
\* product gets no order.
C16_ZScoreGuard ==
    (pc = "returned" /\ "CROISSANTS" \in listed /\ TwoSided(state.order_depths["CROISSANTS"])
        /\ (Len(Window) < 100 \/ AllEqual(Window))) =>
        /\ pb_z_zero(Window, MidPrice(state.order_depths["CROISSANTS"]))
        /\ pb_z_side(Window, MidPrice(state.order_depths["CROISSANTS"])) = 0
        /\ Get(ret.result, "CROISSANTS", <<>>) = <<>>

\* C16's case: 99 observations, the last one off the others, and no order
C16_Witness ==
    /\ pc = "returned" /\ "CROISSANTS" \in listed
    /\ TwoSided(state.order_depths["CROISSANTS"])
    /\ Len(Window) = 99 /\ ~AllEqual(Window)
    /\ Window[99] = MidPrice(state.order_depths["CROISSANTS"])
    /\ Get(ret.result, "CROISSANTS", <<>>) = <<>>

\* C16's second case: a full window of equal values
C16_FullWindowAllEqual ==
    /\ pc = "returned" /\ "CROISSANTS" \in listed
    /\ TwoSided(state.order_depths["CROISSANTS"])
    /\ Len(Window) = 100 /\ AllEqual(Window)

\* the top-level keys of a decoded blob
KeysOf(blob) == {blob.keys[i] : i \in 1..Len(blob.keys)}

RECURSIVE Gcd(_, _)
Gcd(a, b) == IF b = 0 THEN a ELSE Gcd(b, a % b)

\* a fraction of positive numerator and denominator in lowest terms
Lowest(f) == Fraction(f.num \div Gcd(f.num, f.den), f.den \div Gcd(f.num, f.den))

RECURSIVE WeightedPrices(_, _)
WeightedPrices(side, levels) ==
    IF levels = {} THEN 0
    ELSE LET p == Max(levels) IN p * Abs(side[p]) + WeightedPrices(side, levels \ {p})

RECURSIVE Volume(_, _)
Volume(side, levels) ==
    IF levels = {} THEN 0
    ELSE LET p == Max(levels) IN Abs(side[p]) + Volume(side, levels \ {p})

\* twice the numerator and the denominator of q * (bid VWAP + ask VWAP) / 2 over all
\* levels of both sides
Share(q, depth) ==
    LET bn == WeightedPrices(depth.buy_orders, DOMAIN depth.buy_orders)
        bd == Volume(depth.buy_orders, DOMAIN depth.buy_orders)
        an == WeightedPrices(depth.sell_orders, DOMAIN depth.sell_orders)
        ad == Volume(depth.sell_orders, DOMAIN depth.sell_orders)
    IN  Lowest(Fraction(q * (bn * ad + an * bd), 2 * bd * ad))

RECURSIVE SumOfShares(_, _, _)
SumOfShares(components, comps, depths) ==
    IF comps = {} THEN Fraction(0, 1)
    ELSE LET c == CHOOSE x \in comps : TRUE
             rest == SumOfShares(components, comps \ {c}, depths)
             share == Share(components[c], depths[c])
         IN  IF rest.num = 0 THEN share
             ELSE Lowest(Fraction(rest.num * share.den + share.num * rest.den,
                                  rest.den * share.den))

\* a component whose book is not in the snapshot or has an empty side
Unpriced(c, depths) ==
    \/ c \notin DOMAIN depths
    \/ depths[c].buy_orders = NoSide
    \/ depths[c].sell_orders = NoSide

\* C18: calculate_fair_value returns None exactly when a component of the basket has
\* no book with a bid and an ask (a component the snapshot lacks has neither), and
\* otherwise the sum over the components of q * (bid VWAP + ask VWAP) / 2, each VWAP
\* over all levels of its side.
C18_CompositeFairValue ==
    pc = "valued" =>
        LET components == COMPONENTS[locals.basket]
            depths == state.order_depths
        IN  /\ locals.value.none <=> \E c \in DOMAIN components : Unpriced(c, depths)
            /\ ~locals.value.none =>
                  Lowest(locals.value.total) = SumOfShares(components, DOMAIN components, depths)

\* C18's case: PICNIC_BASKET1 valued on three books of two levels a side:
\* 6 * (37/4 + 51/4) / 2 + 3 * (77/4 + 91/4) / 2 + (117/4 + 131/4) / 2 = 160
C18_Witness ==
    /\ pc = "valued" /\ locals.basket = "PICNIC_BASKET1" /\ ~locals.value.none
    /\ \A c \in DOMAIN COMPONENTS["PICNIC_BASKET1"] :
          /\ c \in DOMAIN state.order_depths
          /\ Cardinality(DOMAIN state.order_depths[c].buy_orders) = 2
          /\ Cardinality(DOMAIN state.order_depths[c].sell_orders) = 2
    /\ Lowest(locals.value.total) = Fraction(160, 1)

\* the price history a moving-average product had when the call began: the one of
\* the blob in ROUND-1, the one of the restored state in ROUND-3
HistoryBefore(p) ==
    IF round = 1 THEN Stored(state.traderData, p)
    ELSE Get(locals.restored.price_history, p, <<>>)

Buys(orders) == {i \in 1..Len(orders) : orders[i].quantity > 0}
Sells(orders) == {i \in 1..Len(orders) : orders[i].quantity < 0}

\* the book has a bid and an ask and the best bid is below the best ask
Uncrossed(depth) ==
    TwoSided(depth) /\ Max(DOMAIN depth.buy_orders) < Min(DOMAIN depth.sell_orders)

\* the book has a bid and an ask at one price
Locked(depth) ==
    TwoSided(depth) /\ Max(DOMAIN depth.buy_orders) = Min(DOMAIN depth.sell_orders)

\* on an uncrossed book the walk never emits a buy and a sell together
NoBuyAndSellWhenUncrossed ==
    pc = "returned" =>
        \A p \in Walked :
            Uncrossed(state.order_depths[p]) =>
                LET orders == Get(ret.result, p, <<>>)
                IN  Buys(orders) = {} \/ Sells(orders) = {}

\* C19 as stated: on an uncrossed book the order walk never emits both a buy and a
\* sell for the product, and on a tick before which the product's price history was
\* empty it emits no order at all.
C19_NoOrderOnEmptyHistory ==
    /\ NoBuyAndSellWhenUncrossed
    /\ pc = "returned" =>
          \A p \in Walked : HistoryBefore(p) = <<>> => Get(ret.result, p, <<>>) = <<>>

\* C19 amended: on an uncrossed book the order walk never emits both a buy and a sell
\* for the product, and on a tick before which the product's price history was empty
\* it emits no order when the book has both sides and best bid <= best ask (the fair
\* price is then the mid-price of the book).
C19_NoOrderOnEmptyHistoryUncrossed ==
    /\ NoBuyAndSellWhenUncrossed
    /\ pc = "returned" =>
          \A p \in Walked :
              LET depth == state.order_depths[p]
              IN  (HistoryBefore(p) = <<>> /\ (Uncrossed(depth) \/ Locked(depth))) =>
                      /\ 2 * locals.fair[p].num
                            = locals.fair[p].den * (Max(DOMAIN depth.buy_orders)
                                                    + Min(DOMAIN depth.sell_orders))
                      /\ Get(ret.result, p, <<>>) = <<>>

\* C19's case: a first tick on a locked book, whose one price is the fair price, and
\* no order
C19_Witness ==
    /\ pc = "returned"
    /\ \E p \in Walked :
          /\ HistoryBefore(p) = <<>>
          /\ Locked(state.order_depths[p])
          /\ Len(pushed[p]) = 1
          /\ Get(ret.result, p, <<>>) = <<>>

\* C19's second case: an uncrossed book after the first tick, traded on one side
C19_OneSideTraded ==
    /\ pc = "returned"
    /\ \E p \in Walked :
          /\ Uncrossed(state.order_depths[p])
          /\ HistoryBefore(p) # <<>>
          /\ Get(ret.result, p, <<>>) # <<>>

\* the literal reading fails on a first tick with a crossed book
C19_CrossedFirstTick ==
    /\ pc = "returned"
    /\ \E p \in Walked :
          /\ HistoryBefore(p) = <<>>
          /\ TwoSided(state.order_depths[p])
          /\ Buys(Get(ret.result, p, <<>>)) # {} /\ Sells(Get(ret.result, p, <<>>)) # {}

\* and, in ROUND-1, on a first tick with a one-sided book
C19_OneSidedFirstTick ==
    /\ pc = "returned"
    /\ \E p \in Walked :
          /\ HistoryBefore(p) = <<>>
          /\ ~TwoSided(state.order_depths[p])
          /\ Get(ret.result, p, <<>>) # <<>>

\* the start-of-tick position of the product is within its limit
WithinLimit(p) ==
    /\ -PositionLimit(round, p) <= Get(state.position, p, 0)
    /\ Get(state.position, p, 0) <= PositionLimit(round, p)

\* the bid volumes of the book are positive and the ask volumes negative
SignedBook(depth) ==
    /\ \A b \in DOMAIN depth.buy_orders : depth.buy_orders[b] > 0
    /\ \A a \in DOMAIN depth.sell_orders : depth.sell_orders[a] < 0

\* C20: on books with positive bid volumes and negative ask volumes and a
\* start-of-tick position within the limit, every emitted order has a non-zero
\* quantity: positive for an order of the walk's buy branch (priced at an ask below the
\* fair price) and of the oversold branch of CROISSANTS, negative for an order of the
\* walk's sell branch (priced at a bid above the fair price), of the overbought
\* branch of CROISSANTS and of the voucher short.
C20_QuantitySignMatchesSide ==
    pc = "returned" =>
        /\ \A p \in DOMAIN ret.result :
              (WithinLimit(p) /\ (p \in DOMAIN state.order_depths => SignedBook(state.order_depths[p])))
                  => \A i \in 1..Len(ret.result[p]) : ret.result[p][i].quantity # 0
        /\ \A p \in Walked :
              (WithinLimit(p) /\ SignedBook(state.order_depths[p])) =>
                  LET orders == Get(ret.result, p, <<>>)
                      depth == state.order_depths[p]
                  IN  \A i \in 1..Len(orders) :
                          /\ BelowFair(orders[i].price, locals.fair[p]) =>
                                orders[i].quantity > 0 /\ orders[i].price \in DOMAIN depth.sell_orders
                          /\ AboveFair(orders[i].price, locals.fair[p]) =>
                                orders[i].quantity < 0 /\ orders[i].price \in DOMAIN depth.buy_orders
                          /\ BelowFair(orders[i].price, locals.fair[p])
                                \/ AboveFair(orders[i].price, locals.fair[p])
        /\ ("CROISSANTS" \in listed /\ TwoSided(state.order_depths["CROISSANTS"])
               /\ WithinLimit("CROISSANTS") /\ SignedBook(state.order_depths["CROISSANTS"])) =>
              LET orders == Get(ret.result, "CROISSANTS", <<>>)
                  z_side == pb_z_side(Window, MidPrice(state.order_depths["CROISSANTS"]))
              IN  \A i \in 1..Len(orders) :
                      /\ z_side = 1 => orders[i].quantity < 0
                      /\ z_side = -1 => orders[i].quantity > 0
                      /\ z_side # 0
        /\ \A v \in Vouchers :
              WithinLimit(v) =>
                  \A i \in 1..Len(Get(ret.result, v, <<>>)) : ret.result[v][i].quantity < 0

\* C20's case: a walk that buys at an ask below the fair price and sells at a bid
\* above it in one tick
C20_Witness ==
    /\ pc = "returned"
    /\ \E p \in Walked :
          /\ WithinLimit(p) /\ SignedBook(state.order_depths[p])
          /\ \E i, j \in 1..Len(Get(ret.result, p, <<>>)) :
                /\ BelowFair(ret.result[p][i].price, locals.fair[p])
                /\ ret.result[p][i].quantity > 0
                /\ AboveFair(ret.result[p][j].price, locals.fair[p])
                /\ ret.result[p][j].quantity < 0

\* C20's other cases: an oversold buy and an overbought sell of CROISSANTS, and a
\* voucher short
C20_CroissantBuy ==
    /\ pc = "returned" /\ "CROISSANTS" \in DOMAIN ret.result
    /\ \E i \in 1..Len(ret.result["CROISSANTS"]) : ret.result["CROISSANTS"][i].quantity > 0

C20_CroissantSell ==
    /\ pc = "returned" /\ "CROISSANTS" \in DOMAIN ret.result
    /\ \E i \in 1..Len(ret.result["CROISSANTS"]) : ret.result["CROISSANTS"][i].quantity < 0

C20_VoucherShort ==
    /\ pc = "returned"
    /\ \E v \in Vouchers : Get(ret.result, v, <<>>) # <<>>

C21_ShortPricedZero ==
    /\ round = 3 /\ pc = "returned"
    /\ self.vr_price = 21001
    /\ \E v \in Vouchers :
          /\ Strike(v).strike = 10500
          /\ Get(ret.result, v, <<>>) # <<>>
          /\ ret.result[v][1].price = 0
          /\ ret.result[v][1].quantity < 0

====
